---- MODULE Spec2Model ----
(***************************************************************************)
(* ACP brevet control times: brevets/acp_times.py.                         *)
(*                                                                         *)
(* The module is a library of two functions, open_time and close_time.     *)
(* A caller holds three inputs (control distance, nominal brevet distance, *)
(* start time) and calls each function on them.  The state is the caller's *)
(* inputs and the value each call returned.                                *)
(*                                                                         *)
(* Numbers.  Control distances are whole kilometres.  Python computes the  *)
(* minutes of a band as a float; here a float is the exact rational        *)
(* <<numerator, denominator>>.  On whole kilometres no total of minutes    *)
(* lies on a half, so the float and the rational round to the same minute. *)
(* A timestamp is the number of minutes since 2021-02-20 00:00:00.         *)
(***************************************************************************)
EXTENDS Integers, Sequences, FiniteSets

VARIABLES control, brevet, start, opened, closed

vars == <<control, brevet, start, opened, closed>>

----------------------------------------------------------------------------
(* Bounds of the model *)

\* largest control distance a caller passes, in km
MaxControlKm == 1301

\* most negative control distance a caller passes, in km (as a magnitude)
MaxNegativeKm == 2

----------------------------------------------------------------------------
(* Values *)

\* mutant: the speed of the last band is mistyped
TOP_SPEEDS_typo == [to200 |-> 34, to400 |-> 32, to600 |-> 30, to1000 |-> 26]

\* TOP_SPEEDS: maximum average speed (km/h) per distance band
TOP_SPEEDS == [to200 |-> 34, to400 |-> 32, to600 |-> 30, to1000 |-> 28]

\* the only official ACP brevet distances (docstring of open_time)
SanctionedBrevets == {200, 300, 400, 600, 1000}

\* brevet distances a caller may pass that are not official
UnsanctionedBrevets == {250}

\* arrow.get(text, 'YYYY-MM-DD HH:mm:ss') for dates of February 2021:
\* the minutes since 2021-02-20 00:00:00
arrow_get(year, month, day, hour, minute) ==
    ((day - 20) * 24 + hour) * 60 + minute

\* a returned Arrow timestamp
Time(at) == [kind |-> "time", at |-> at]

\* the branch "should never end up here": arrow.get of the all-zero date
\* '0000-00-00 00:00:00'.  Whatever arrow makes of that text, the outcome is
\* neither an ordinary timestamp nor a typed distance error.
ZeroDate == [kind |-> "zero_date", at |-> 0]

\* the function has not been called yet
NotCalled == [kind |-> "none", at |-> 0]

\* Arrow.shift(hours=, minutes=)
shift(t, hours, minutes) == t + 60 * hours + minutes

----------------------------------------------------------------------------
(* Float arithmetic, as exact rationals <<numerator, denominator>>, den > 0 *)

FAdd(a, b) == <<a[1] * b[2] + b[1] * a[2], a[2] * b[2]>>

\* a >= n for an integer n
FGeq(a, n) == a[1] >= n * a[2]

\* Python's round(): to the nearest integer, a half to the even one
round(x) ==
    LET q == x[1] \div x[2]
        r == x[1] % x[2]
    IN  IF 2 * r < x[2] THEN q
        ELSE IF 2 * r > x[2] THEN q + 1
        ELSE IF q % 2 = 0 THEN q ELSE q + 1

----------------------------------------------------------------------------
(* Helpers of acp_times.py *)

\* mutant: the minutes of each band are rounded before they are summed
h_m_at_speed_rounded(dist, speed) ==
    <<dist \div speed, <<round(<<(dist % speed) * 60, speed>>), 1>> >>

\* hours = int(dist // speed); minutes = dist % speed / speed * 60
h_m_at_speed(dist, speed) ==
    <<dist \div speed, <<(dist % speed) * 60, speed>> >>

\* mutant: the carried hours are dropped
carry_m_to_h_dropped(hours, minutes) ==
    <<hours, <<minutes[1] % (60 * minutes[2]), minutes[2]>> >>

\* hours += int(minutes // 60); minutes = minutes % 60
carry_m_to_h(hours, minutes) ==
    <<hours + (minutes[1] \div (60 * minutes[2])),
      <<minutes[1] % (60 * minutes[2]), minutes[2]>> >>

\* mutant: the overage allowance is 10% instead of 20%
OverageLimit_ten(nominal) == round(<<nominal * 10 + nominal * 1, 10>>)

\* round(nominal + nominal * .2): the longest control of a brevet
OverageLimit(nominal) == round(<<nominal * 10 + nominal * 2, 10>>)

\* "if total_minutes >= 60: carry" followed by
\* brevet_start_time.shift(hours=total_hours, minutes=round(total_minutes))
ShiftTotal(brevet_start_time, total_hours, total_minutes) ==
    LET hm == IF FGeq(total_minutes, 60)
              THEN carry_m_to_h(total_hours, total_minutes)
              ELSE <<total_hours, total_minutes>>
    IN  Time(shift(brevet_start_time, hm[1], round(hm[2])))

----------------------------------------------------------------------------
(* open_time *)

open_time(control_dist_km, brevet_dist_km, brevet_start_time) ==
    IF control_dist_km = 0 THEN
        Time(brevet_start_time)
    ELSE IF control_dist_km <= 200 THEN
        LET hm == h_m_at_speed(control_dist_km, TOP_SPEEDS.to200)
        IN  Time(shift(brevet_start_time, hm[1], round(hm[2])))
    ELSE IF brevet_dist_km = 200 /\ control_dist_km <= OverageLimit(200) THEN
        Time(shift(brevet_start_time, 5, 53))
    ELSE IF control_dist_km <= 400 THEN
        LET first_200 == h_m_at_speed(200, TOP_SPEEDS.to200)
            remaining_distance == control_dist_km - 200
            second_200 == h_m_at_speed(remaining_distance, TOP_SPEEDS.to400)
        IN  ShiftTotal(brevet_start_time,
                       first_200[1] + second_200[1],
                       FAdd(first_200[2], second_200[2]))
    ELSE IF brevet_dist_km = 400 /\ control_dist_km <= OverageLimit(400) THEN
        Time(shift(brevet_start_time, 12, 8))
    ELSE IF control_dist_km <= 600 THEN
        LET first_200 == h_m_at_speed(200, TOP_SPEEDS.to200)
            second_200 == h_m_at_speed(200, TOP_SPEEDS.to400)
            remaining_distance == control_dist_km - 400
            third_200 == h_m_at_speed(remaining_distance, TOP_SPEEDS.to600)
        IN  ShiftTotal(brevet_start_time,
                       first_200[1] + second_200[1] + third_200[1],
                       FAdd(FAdd(first_200[2], second_200[2]), third_200[2]))
    ELSE IF brevet_dist_km = 600 /\ control_dist_km <= OverageLimit(600) THEN
        Time(shift(brevet_start_time, 18, 48))
    ELSE IF control_dist_km < OverageLimit(1000) THEN
        LET capped == IF control_dist_km > 1000 THEN 1000 ELSE control_dist_km
            first_200 == h_m_at_speed(200, TOP_SPEEDS.to200)
            second_200 == h_m_at_speed(200, TOP_SPEEDS.to400)
            third_200 == h_m_at_speed(200, TOP_SPEEDS.to600)
            remaining_distance == capped - 600
            final_400 == h_m_at_speed(remaining_distance, TOP_SPEEDS.to1000)
        IN  ShiftTotal(brevet_start_time,
                       first_200[1] + second_200[1] + third_200[1] + final_400[1],
                       FAdd(FAdd(FAdd(first_200[2], second_200[2]),
                                 third_200[2]), final_400[2]))
    ELSE
        ZeroDate

----------------------------------------------------------------------------
(* close_time *)

\* mutant: the zero-distance control is not a special case
close_time_no_special(control_dist_km, brevet_dist_km, brevet_start_time, now) ==
    Time(now)

\* now is the wall clock read by arrow.now()
close_time(control_dist_km, brevet_dist_km, brevet_start_time, now) ==
    IF control_dist_km = 0
    THEN Time(shift(brevet_start_time, 1, 0))
    ELSE Time(now)

----------------------------------------------------------------------------
(* The caller *)

ControlDistances == (0 - MaxNegativeKm)..MaxControlKm

BrevetDistances == SanctionedBrevets \cup UnsanctionedBrevets

StartTimes == {arrow_get(2021, 2, 20, 14, 0), arrow_get(2021, 2, 20, 23, 30)}

\* readings of the wall clock
Clock == {arrow_get(2021, 2, 20, 14, 0), arrow_get(2021, 2, 23, 9, 0)}

Init ==
    /\ control \in ControlDistances
    /\ brevet \in BrevetDistances
    /\ start \in StartTimes
    /\ opened = NotCalled
    /\ closed = NotCalled

OpenTimeCall ==
    /\ opened = NotCalled
    /\ opened' = open_time(control, brevet, start)
    /\ UNCHANGED <<control, brevet, start, closed>>

CloseTimeCall ==
    /\ closed = NotCalled
    /\ \E now \in Clock : closed' = close_time(control, brevet, start, now)
    /\ UNCHANGED <<control, brevet, start, opened>>

Next == OpenTimeCall \/ CloseTimeCall

Spec == Init /\ [][Next]_vars

\* a caller that asks for open times only
SpecOpen == Init /\ [][OpenTimeCall]_vars

----------------------------------------------------------------------------
(* The rules the claims state, written independently of the code *)

\* the bands [0,200], (200,400], (400,600], (600,1000] and their speeds
Bands == << <<0, 200, 34>>, <<200, 400, 32>>, <<400, 600, 30>>, <<600, 1000, 28>> >>

\* a common denominator of the four speeds
CommonDen == 32 * 3 * 5 * 7 * 17

\* the part of c that lies in a band, in km
PartIn(c, band) ==
    LET upto == IF c < band[2] THEN c ELSE band[2]
    IN  IF upto > band[1] THEN upto - band[1] ELSE 0

\* 60 * (sum over the bands of part / speed), as a multiple of 1 / CommonDen
ExactMinutes(c) ==
    60 * ( PartIn(c, Bands[1]) * (CommonDen \div Bands[1][3])
         + PartIn(c, Bands[2]) * (CommonDen \div Bands[2][3])
         + PartIn(c, Bands[3]) * (CommonDen \div Bands[3][3])
         + PartIn(c, Bands[4]) * (CommonDen \div Bands[4][3]) )

\* the exact total rounded once to the nearest minute
NearestMinute(c) == (2 * ExactMinutes(c) + CommonDen) \div (2 * CommonDen)

\* no exact total lies on a half minute, so "nearest" is unambiguous
IsHalfMinute(c) == (2 * ExactMinutes(c)) % (2 * CommonDen) = CommonDen

InOverage(c, D) == D < c /\ 10 * c <= 12 * D

----------------------------------------------------------------------------
(* Claims *)

\* C1: for a sanctioned brevet D, an integer control 0 <= c <= D and any start
\* t, open_time(c, D, t) is t plus the exact tiered total rounded once to the
\* nearest minute; open_time(0, D, t) = t.
C1_OpenTimeIsExactTotalRoundedOnce ==
    (opened # NotCalled /\ brevet \in SanctionedBrevets
        /\ 0 <= control /\ control <= brevet)
    => /\ ~IsHalfMinute(control)
       /\ opened = Time(start + NearestMinute(control))
       /\ (control = 0 => opened = Time(start))

\* C1 witness: 300 km of a 300 km brevet opens 9h00 after the start (the two
\* bands rounded one by one would give 9h01).
C1_Witness ==
    /\ control = 300 /\ brevet = 300
    /\ opened = Time(start + 9 * 60)

\* C2: for D in {200, 400, 600} and D < c <= 1.2 D, open_time(c, D, t) equals
\* open_time(D, D, t), which is t + 5h53, t + 12h08 and t + 18h48.
C2_OverageIsFrozenAtNominal ==
    (opened # NotCalled /\ brevet \in {200, 400, 600} /\ InOverage(control, brevet))
    => /\ opened = open_time(brevet, brevet, start)
       /\ opened = Time(start + (CASE brevet = 200 -> 5 * 60 + 53
                                   [] brevet = 400 -> 12 * 60 + 8
                                   [] brevet = 600 -> 18 * 60 + 48))

\* C2 witness: the last control of a 400 km brevet at 480 km opens at 12h08.
C2_Witness ==
    /\ control = 480 /\ brevet = 400
    /\ opened = Time(start + 12 * 60 + 8)

\* C3: a negative control distance yields an InvalidDistance error, never a
\* timestamp.
C3_NegativeControlIsInvalidDistance ==
    (opened # NotCalled /\ brevet \in SanctionedBrevets /\ control < 0)
    => opened.kind = "InvalidDistance"

\* C4: a control distance beyond 1.2 D yields an InvalidDistance error, never a
\* computed timestamp or a sentinel timestamp.
C4_BeyondOverageIsInvalidDistance ==
    (opened # NotCalled /\ brevet \in SanctionedBrevets
        /\ 10 * control > 12 * brevet)
    => opened.kind = "InvalidDistance"

\* C5: a brevet distance outside {200, 300, 400, 600, 1000} yields an
\* InvalidBrevetDistance error from open_time and from close_time.
C5_UnsanctionedBrevetIsInvalid ==
    brevet \notin SanctionedBrevets
    => /\ opened # NotCalled => opened.kind = "InvalidBrevetDistance"
       /\ closed # NotCalled => closed.kind = "InvalidBrevetDistance"

\* C6: for a fixed sanctioned brevet and start, open_time never decreases as
\* the control distance grows, over the controls 0 <= c1 <= c2 that get a
\* timestamp.
C6_OpenTimeIsMonotone ==
    (opened.kind = "time" /\ brevet \in SanctionedBrevets /\ control >= 0)
    => \A c1 \in 0..control :
          \A earlier \in {open_time(c1, brevet, start)} :
             earlier.kind = "time" => earlier.at <= opened.at

\* C6 witness: a control just past the frozen range of a 600 km brevet.
C6_Witness ==
    /\ control = 721 /\ brevet = 600
    /\ opened.kind = "time"
    /\ opened.at > open_time(720, 600, start).at

\* C7 as stated: open_time(1000, 1000, 2021-02-20 14:00) is 2021-02-21 13:05.
C7_Original ==
    (opened # NotCalled /\ control = 1000 /\ brevet = 1000
        /\ start = arrow_get(2021, 2, 20, 14, 0))
    => opened = Time(arrow_get(2021, 2, 21, 13, 5))

\* C7 amended: open_time(1000, 1000, 2021-02-20 14:00) is 2021-02-21 23:05,
\* the four bands 200/34 + 200/32 + 200/30 + 400/28 hours rounded to the minute.
C7_Amended ==
    (opened # NotCalled /\ control = 1000 /\ brevet = 1000
        /\ start = arrow_get(2021, 2, 20, 14, 0))
    => /\ opened = Time(arrow_get(2021, 2, 21, 23, 5))
       /\ opened = Time(start + NearestMinute(1000))

\* C7 witness: the call of the scenario has returned.
C7_Witness ==
    /\ control = 1000 /\ brevet = 1000
    /\ start = arrow_get(2021, 2, 20, 14, 0)
    /\ opened.kind = "time"

\* C8: for a sanctioned brevet and a valid control 0 <= c <= 1.2 D, a control
\* never opens after it closes.
C8_OpensBeforeItCloses ==
    (opened.kind = "time" /\ closed.kind = "time" /\ brevet \in SanctionedBrevets
        /\ 0 <= control /\ 10 * control <= 12 * brevet)
    => opened.at <= closed.at

\* C9: close_time(0, D, t) is t plus exactly one hour.
C9_StartControlClosesAfterOneHour ==
    (closed # NotCalled /\ brevet \in SanctionedBrevets /\ control = 0)
    => closed = Time(start + 60)

\* C9 witness: the start control of a 200 km brevet has a close time.
C9_Witness ==
    /\ control = 0 /\ brevet = 200
    /\ closed = Time(start + 60)

\* C10: for a 1000 km brevet every control 1000 < c <= 1200 is accepted and
\* opens when the 1000 km control opens.
C10_FinalOverageIsAccepted ==
    (opened # NotCalled /\ brevet = 1000 /\ InOverage(control, 1000))
    => /\ opened.kind = "time"
       /\ opened = open_time(1000, 1000, start)

====
